---- MODULE Spec2Model ----
(***************************************************************************)
(* The memoization and dispatch layer of tex2typst (tex2typst/__init__.py) *)
(* as a state machine: the two functools.lru_cache instances that wrap     *)
(* _tex2typst_cached and _typst2tex_cached, the public functions           *)
(* tex2typst, typst2tex, clear_cache and cache_info, and the engine        *)
(* (_tex2typst_core) as the calls it receives and the values it returns.   *)
(*                                                                         *)
(* Python values are encoded so that equal Python values are equal here:   *)
(*   Optional[bool]      "None" | "True" | "False"                         *)
(*   Optional[dict]      [given |-> FALSE, items |-> <<>>]  for None,      *)
(*                       [given |-> TRUE, items |-> <<<<k, v>>, ...>>]     *)
(*                       for a dict, items in insertion order              *)
(*   Optional[tuple]     the same record, items in the tuple's order       *)
(*   str (macro names and expansions)   a natural number; < on the numbers *)
(*                       stands for Python's < on the strings              *)
(*   the argument tex    [shape |-> type(tex).__name__, items |-> ...]     *)
(*   a list item that is not a str   the name of its type in angle         *)
(*                       brackets, "<int>"                                 *)
(***************************************************************************)
EXTENDS Naturals, Sequences, FiniteSets

VARIABLES
    cache,      \* per cached function: its entries, least recently used first
    hits,       \* per cached function: CacheInfo.hits
    misses,     \* per cached function: CacheInfo.misses
    maxsize,    \* per cached function: CacheInfo.maxsize
    last,       \* the last public call: what it was given, what it returned,
                \* and the engine entry points it invoked
    since,      \* per cached function, since the last clear_cache: the calls
                \* with a str, the invocations of the scalar entry point, and
                \* the keys converted, in the order of their last access
    epoch,      \* the version of the engine: what it returns for a text may
                \* differ from one version to the next
    pending     \* per caller: the call it is in the middle of

vars == <<cache, hits, misses, maxsize, last, since, epoch, pending>>

(***************************************************************************)
(* Bounds of the model.                                                    *)
(***************************************************************************)
\* Spec: calls with a str (hits + misses, both functions together) between two
\* clears
MaxCalls == 2
\* SpecDispatch: the longest list handed to a public function, and calls with
\* a str between two clears
MaxListLen == 2
MaxDispatchCalls == 1
\* SpecLRU: capacity of the two caches, and calls with a str between two clears
LRUCap == 2
MaxLRUCalls == 4
\* SpecStale: the versions of the engine after the first, and calls with a
\* str between two clears
MaxEpoch == 1
MaxStaleCalls == 3
\* SpecThreads: capacity of the two caches, and calls with a str between two
\* clears
ThreadCap == 2
MaxThreadCalls == 3

\* @lru_cache(maxsize=1024)
MAXSIZE == 1024

Funcs == {"tex2typst", "typst2tex"}

None == "None"
Flag3 == {"None", "True", "False"}

\* texts handed to the public functions; the engine rejects those of BadTexts
Texts == {"alpha", "beta", "bad"}
BadTexts == {"bad"}

\* list items that are not a str
NonStr == {"<int>"}

\* the callers (threads) of SpecThreads
Callers == {"A", "B"}

NoDict == [given |-> FALSE, items |-> <<>>]
Dict(s) == [given |-> TRUE, items |-> s]

\* the dicts given as custom_tex_macros: absent, empty, and the same two pairs
\* inserted in either order
MacroDicts ==
    { NoDict, Dict(<<>>),
      Dict(<< <<1, 1>>, <<2, 2>> >>), Dict(<< <<2, 2>>, <<1, 1>> >>) }

DefaultTexOptions ==
    [non_strict |-> None, prefer_shorthands |-> None, keep_spaces |-> None,
     frac_to_slash |-> None, infty_to_oo |-> None, optimize |-> None,
     custom_tex_macros |-> NoDict]

\* keyword arguments of tex2typst the model draws from
TexOptions ==
    { [DefaultTexOptions EXCEPT !.custom_tex_macros = m] : m \in MacroDicts }
    \cup { [DefaultTexOptions EXCEPT !.frac_to_slash = b] : b \in Flag3 }

\* keyword arguments of typst2tex
TypstOptions == [block_math_mode : Flag3]

SeqsUpTo(S, n) == UNION { [1..k -> S] : k \in 0..n }

StrArg(x) == [shape |-> "str", items |-> <<x>>]
ListArg(xs) == [shape |-> "list", items |-> xs]
OtherArg(t) == [shape |-> t, items |-> <<>>]

\* lists that hold an item that is not a str
MixedLists == { <<n>> : n \in NonStr } \cup { <<"alpha", n>> : n \in NonStr }

\* values given as the first argument: a str, a list of str, a list with an
\* item that is not a str, or another type
Args ==
    { StrArg(x) : x \in Texts }
    \cup { ListArg(xs) : xs \in SeqsUpTo(Texts, MaxListLen) }
    \cup { ListArg(xs) : xs \in MixedLists }
    \cup { OtherArg(t) : t \in {"int", "dict"} }

(***************************************************************************)
(* sorted() on a list of (str, str) pairs: tuples compare lexicographically *)
(***************************************************************************)
PairLess(p, q) == p[1] < q[1] \/ (p[1] = q[1] /\ p[2] < q[2])

RECURSIVE Insert(_, _)
Insert(p, s) ==
    IF s = <<>> THEN <<p>>
    ELSE IF PairLess(s[1], p) THEN <<s[1]>> \o Insert(p, Tail(s))
    ELSE <<p>> \o s

RECURSIVE sorted(_)
sorted(s) == IF s = <<>> THEN <<>> ELSE Insert(s[1], sorted(Tail(s)))

\* as _make_hashable, were it tuple(d.items()): the pairs in insertion order
make_hashable_unsorted(d) == IF d.given THEN Dict(d.items) ELSE NoDict

\* as _make_hashable, were it tuple(sorted((d or {}).items())): None as ()
make_hashable_or_empty(d) == Dict(sorted(d.items))

\* def _make_hashable(d): tuple(sorted(d.items())) if d is not None else None
make_hashable(d) == IF d.given THEN Dict(sorted(d.items)) ELSE NoDict

(***************************************************************************)
(* The engine, _tex2typst_core: a function of the text and of the options  *)
(* it receives.  Its output is the term naming that conversion by the      *)
(* engine's version; a mapping it receives is a dict, which Python         *)
(* compares without order.  It rejects the texts of BadTexts, and a list   *)
(* item that is not a str.                                                 *)
(***************************************************************************)
AsMapping(d) == [given |-> d.given, items |-> { d.items[i] : i \in 1..Len(d.items) }]

core_output(f, x, kw) == [fn |-> f, text |-> x, kw |-> kw, epoch |-> epoch]
core_rejects(f, x, kw) == x \in BadTexts \cup NonStr

EngineCall(entry, f, xs, kw) == [entry |-> entry, fn |-> f, texts |-> xs, kw |-> kw]

\* the invocations of an entry point among the engine calls of c
ScalarCalls(c) == { i \in 1..Len(c.engine) : c.engine[i].entry = "scalar" }
BatchCalls(c) == { i \in 1..Len(c.engine) : c.engine[i].entry = "batch" }

\* _tex2typst_core.tex2typst / typst2tex: one text
core_scalar(f, x, kw) ==
    IF core_rejects(f, x, kw)
    THEN [outcome |-> "ConversionError", ret |-> <<>>,
          engine |-> <<EngineCall("scalar", f, <<x>>, kw)>>]
    ELSE [outcome |-> "ok", ret |-> <<core_output(f, x, kw)>>,
          engine |-> <<EngineCall("scalar", f, <<x>>, kw)>>]

\* _tex2typst_core.tex2typst_batch / typst2tex_batch: the texts item by item,
\* all or nothing
core_batch(f, xs, kw) ==
    IF \E i \in 1..Len(xs) : core_rejects(f, xs[i], kw)
    THEN [outcome |-> "ConversionError", ret |-> <<>>,
          engine |-> <<EngineCall("batch", f, xs, kw)>>]
    ELSE [outcome |-> "ok", ret |-> [i \in 1..Len(xs) |-> core_output(f, xs[i], kw)],
          engine |-> <<EngineCall("batch", f, xs, kw)>>]

(***************************************************************************)
(* functools.lru_cache(maxsize=N) around a function.                       *)
(***************************************************************************)
\* position of the entry of key k in c, 0 when there is none
Find(c, k) ==
    IF \E i \in 1..Len(c) : c[i].key = k
    THEN CHOOSE i \in 1..Len(c) : c[i].key = k
    ELSE 0

Remove(c, i) == [j \in 1..(Len(c) - 1) |-> IF j < i THEN c[j] ELSE c[j + 1]]

\* as lru_touch, were a hit to leave the entry where it is
lru_touch_still(c, i) == c

\* a hit moves the entry to the most recently used end
lru_touch(c, i) == Append(Remove(c, i), c[i])

\* as lru_insert, were the result never kept
lru_insert_dropped(c, k, v, cap) == c

\* as lru_insert, were a full cache allowed to grow
lru_insert_unbounded(c, k, v, cap) ==
    IF cap = 0 \/ Find(c, k) > 0 THEN c ELSE Append(c, [key |-> k, val |-> v])

\* as lru_insert, were the result kept without a look for an entry another
\* caller stored in the meantime
lru_insert_again(c, k, v, cap) ==
    IF cap = 0 THEN c
    ELSE IF Len(c) >= cap THEN Append(Tail(c), [key |-> k, val |-> v])
    ELSE Append(c, [key |-> k, val |-> v])

\* after the wrapped function returned: keep the result, dropping the least
\* recently used entry of a full cache; nothing to keep when the key has an
\* entry by then
lru_insert(c, k, v, cap) ==
    IF cap = 0 \/ Find(c, k) > 0 THEN c
    ELSE IF Len(c) >= cap THEN Append(Tail(c), [key |-> k, val |-> v])
    ELSE Append(c, [key |-> k, val |-> v])

\* as lru_cache_wrapper, were a miss counted only after the wrapped function
\* has returned
lru_cache_wrapper_late_miss(f, k, body) ==
    LET c == cache[f]
        i == Find(c, k)
    IN  IF i > 0
        THEN [cache |-> lru_touch(c, i), hits |-> hits[f] + 1, misses |-> misses[f],
              outcome |-> "ok", ret |-> <<c[i].val>>, engine |-> <<>>, hit |-> "hit"]
        ELSE IF body.outcome = "ok"
        THEN [cache |-> lru_insert(c, k, body.ret[1], maxsize[f]),
              hits |-> hits[f], misses |-> misses[f] + 1,
              outcome |-> "ok", ret |-> body.ret, engine |-> body.engine, hit |-> "miss"]
        ELSE [cache |-> c, hits |-> hits[f], misses |-> misses[f],
              outcome |-> body.outcome, ret |-> <<>>, engine |-> body.engine,
              hit |-> "miss"]

\* as lru_cache_wrapper, were a hit to run the wrapped function again and keep
\* what it returns now
lru_cache_wrapper_refresh(f, k, body) ==
    LET c == cache[f]
        i == Find(c, k)
    IN  IF i > 0 /\ body.outcome = "ok"
        THEN [cache |-> Append(Remove(c, i), [key |-> k, val |-> body.ret[1]]),
              hits |-> hits[f] + 1, misses |-> misses[f],
              outcome |-> "ok", ret |-> body.ret, engine |-> <<>>, hit |-> "hit"]
        ELSE IF i > 0
        THEN [cache |-> lru_touch(c, i), hits |-> hits[f] + 1, misses |-> misses[f],
              outcome |-> "ok", ret |-> <<c[i].val>>, engine |-> <<>>, hit |-> "hit"]
        ELSE IF body.outcome = "ok"
        THEN [cache |-> lru_insert(c, k, body.ret[1], maxsize[f]),
              hits |-> hits[f], misses |-> misses[f] + 1,
              outcome |-> "ok", ret |-> body.ret, engine |-> body.engine, hit |-> "miss"]
        ELSE [cache |-> c, hits |-> hits[f], misses |-> misses[f] + 1,
              outcome |-> body.outcome, ret |-> <<>>, engine |-> body.engine,
              hit |-> "miss"]

\* One call of the wrapper of function f with key k; body is what the wrapped
\* function does when it is run.  The result: the wrapper's state after the
\* call and what the caller sees.
lru_cache_wrapper(f, k, body) ==
    LET c == cache[f]
        i == Find(c, k)
    IN  IF i > 0
        THEN [cache |-> lru_touch(c, i), hits |-> hits[f] + 1, misses |-> misses[f],
              outcome |-> "ok", ret |-> <<c[i].val>>, engine |-> <<>>, hit |-> "hit"]
        ELSE IF body.outcome = "ok"
        THEN [cache |-> lru_insert(c, k, body.ret[1], maxsize[f]),
              hits |-> hits[f], misses |-> misses[f] + 1,
              outcome |-> "ok", ret |-> body.ret, engine |-> body.engine, hit |-> "miss"]
        ELSE [cache |-> c, hits |-> hits[f], misses |-> misses[f] + 1,
              outcome |-> body.outcome, ret |-> <<>>, engine |-> body.engine,
              hit |-> "miss"]

\* as cache_clear(), were the counters kept
cache_clear_entries_only(f) == [cache |-> <<>>, hits |-> hits[f], misses |-> misses[f]]

\* cache_clear(): no entries, counters at zero
cache_clear(f) == [cache |-> <<>>, hits |-> 0, misses |-> 0]

\* cache_info(): CacheInfo(hits, misses, maxsize, currsize)
CacheInfo(f) ==
    [hits |-> hits[f], misses |-> misses[f], maxsize |-> maxsize[f],
     currsize |-> Len(cache[f])]

(***************************************************************************)
(* _tex2typst_cached and _typst2tex_cached: the wrapped functions.         *)
(***************************************************************************)
\* macros = dict(custom_tex_macros) if custom_tex_macros else None
tex2typst_macros(t) == IF t.given /\ Len(t.items) > 0 THEN AsMapping(t) ELSE AsMapping(NoDict)

\* body of _tex2typst_cached on the positional arguments k
tex2typst_cached(k) ==
    core_scalar("tex2typst", k[1],
        [non_strict |-> k[2], prefer_shorthands |-> k[3], keep_spaces |-> k[4],
         frac_to_slash |-> k[5], infty_to_oo |-> k[6], optimize |-> k[7],
         custom_tex_macros |-> tex2typst_macros(k[8])])

\* body of _typst2tex_cached on the positional arguments k
typst2tex_cached(k) ==
    core_scalar("typst2tex", k[1], [block_math_mode |-> k[2]])

(***************************************************************************)
(* The public functions.  Each branch gives the state of the function's    *)
(* cache after the call and what the caller sees.                          *)
(***************************************************************************)
\* a branch that does not go through the cache of f
Untouched(f, r) ==
    [cache |-> cache[f], hits |-> hits[f], misses |-> misses[f],
     outcome |-> r.outcome, ret |-> r.ret, engine |-> r.engine, hit |-> "none"]

\* raise TypeError(f"Expected str or list, got {type(tex).__name__}")
TypeError == [outcome |-> "TypeError", ret |-> <<>>, engine |-> <<>>]

\* the positional arguments tex2typst hands to _tex2typst_cached
tex2typst_key(x, o) ==
    <<x, o.non_strict, o.prefer_shorthands, o.keep_spaces, o.frac_to_slash,
      o.infty_to_oo, o.optimize, make_hashable(o.custom_tex_macros)>>

\* if isinstance(tex, str): return _tex2typst_cached(tex, ..., macros_tuple)
tex2typst_str(x, o) ==
    lru_cache_wrapper("tex2typst", tex2typst_key(x, o),
                      tex2typst_cached(tex2typst_key(x, o)))

\* as the list branch, were a list of one item served as the item is
tex2typst_list_cached(xs, o) ==
    IF Len(xs) = 1 THEN tex2typst_str(xs[1], o)
    ELSE Untouched("tex2typst",
                   core_batch("tex2typst", xs,
                              [o EXCEPT !.custom_tex_macros = AsMapping(o.custom_tex_macros)]))

\* as the list branch, were an empty list returned at once
tex2typst_list_short(xs, o) ==
    IF xs = <<>> THEN Untouched("tex2typst", [outcome |-> "ok", ret |-> <<>>, engine |-> <<>>])
    ELSE Untouched("tex2typst",
                   core_batch("tex2typst", xs,
                              [o EXCEPT !.custom_tex_macros = AsMapping(o.custom_tex_macros)]))

\* elif isinstance(tex, list): return _tex2typst_core.tex2typst_batch(tex, ...)
tex2typst_list(xs, o) ==
    Untouched("tex2typst",
              core_batch("tex2typst", xs,
                         [o EXCEPT !.custom_tex_macros = AsMapping(o.custom_tex_macros)]))

\* as the else branch, were every argument that is not a str handed to
\* tex2typst_batch
tex2typst_other_batch(t, o) ==
    Untouched("tex2typst",
              core_batch("tex2typst", <<>>,
                         [o EXCEPT !.custom_tex_macros = AsMapping(o.custom_tex_macros)]))

\* else: raise TypeError
tex2typst_other(t, o) == Untouched("tex2typst", TypeError)

\* the positional arguments typst2tex hands to _typst2tex_cached
typst2tex_key(x, o) == <<x, o.block_math_mode>>

\* if isinstance(typst, str): return _typst2tex_cached(typst, block_math_mode)
typst2tex_str(x, o) ==
    lru_cache_wrapper("typst2tex", typst2tex_key(x, o),
                      typst2tex_cached(typst2tex_key(x, o)))

\* elif isinstance(typst, list): return _tex2typst_core.typst2tex_batch(typst, ...)
typst2tex_list(xs, o) == Untouched("typst2tex", core_batch("typst2tex", xs, o))

\* else: raise TypeError
typst2tex_other(t, o) == Untouched("typst2tex", TypeError)

NoInfo == [f \in Funcs |-> [hits |-> 0, misses |-> 0, maxsize |-> 0, currsize |-> 0]]

\* the record of a public call: what it was given, what cache_info() would
\* have returned before it, what the caller sees, the engine entry points it
\* invoked, and whether the cache answered it
Called(op, arg, kw, w) ==
    [op |-> op, arg |-> arg, kw |-> kw,
     before |-> [f \in Funcs |-> CacheInfo(f)],
     outcome |-> w.outcome, ret |-> w.ret,
     engine |-> w.engine, hit |-> w.hit, info |-> NoInfo]

\* as Through, were the two functions behind one cache
Through_shared(f, w) ==
    /\ cache' = [g \in Funcs |-> w.cache]
    /\ hits' = [g \in Funcs |-> w.hits]
    /\ misses' = [g \in Funcs |-> w.misses]

\* the state of f's cache after a call of f
Through(f, w) ==
    /\ cache' = [cache EXCEPT ![f] = w.cache]
    /\ hits' = [hits EXCEPT ![f] = w.hits]
    /\ misses' = [misses EXCEPT ![f] = w.misses]

\* nothing called since the last clear_cache
NoHistory == [calls |-> 0, engine |-> 0, done |-> <<>>]

\* the keys of s but k
Without(s, k) == SelectSeq(s, LAMBDA e : e # k)

\* the calls of f since the last clear_cache, after one more with a str under
\* key k
Noted(f, k, w) ==
    [calls |-> since[f].calls + 1,
     engine |-> since[f].engine + Cardinality(ScalarCalls(w)),
     done |-> IF w.outcome = "ok" THEN Append(Without(since[f].done, k), k)
              ELSE since[f].done]

\* def tex2typst(tex, *, non_strict=None, ..., custom_tex_macros=None)
tex2typst(tex, o) ==
    LET w == IF tex.shape = "str" THEN tex2typst_str(tex.items[1], o)
             ELSE IF tex.shape = "list" THEN tex2typst_list(tex.items, o)
             ELSE tex2typst_other(tex.shape, o)
    IN  /\ Through("tex2typst", w)
        /\ last' = Called("tex2typst", tex, o, w)
        /\ since' = IF tex.shape = "str"
                    THEN [since EXCEPT !["tex2typst"] =
                             Noted("tex2typst", tex2typst_key(tex.items[1], o), w)]
                    ELSE since
        /\ UNCHANGED <<maxsize, epoch, pending>>

\* def typst2tex(typst, *, block_math_mode=None)
typst2tex(typst, o) ==
    LET w == IF typst.shape = "str" THEN typst2tex_str(typst.items[1], o)
             ELSE IF typst.shape = "list" THEN typst2tex_list(typst.items, o)
             ELSE typst2tex_other(typst.shape, o)
    IN  /\ Through("typst2tex", w)
        /\ last' = Called("typst2tex", typst, o, w)
        /\ since' = IF typst.shape = "str"
                    THEN [since EXCEPT !["typst2tex"] =
                             Noted("typst2tex", typst2tex_key(typst.items[1], o), w)]
                    ELSE since
        /\ UNCHANGED <<maxsize, epoch, pending>>

NoArg == OtherArg("none")
NoKw == [none |-> None]
Returned == [outcome |-> "ok", ret |-> <<>>, engine |-> <<>>, hit |-> "none"]

\* def clear_cache(): both cache_clear()
clear_cache ==
    /\ cache' = [f \in Funcs |-> cache_clear(f).cache]
    /\ hits' = [f \in Funcs |-> cache_clear(f).hits]
    /\ misses' = [f \in Funcs |-> cache_clear(f).misses]
    /\ last' = Called("clear_cache", NoArg, NoKw, Returned)
    /\ since' = [f \in Funcs |-> NoHistory]
    /\ UNCHANGED <<maxsize, epoch, pending>>

\* def cache_info(): both cache_info()
cache_info ==
    /\ last' = [Called("cache_info", NoArg, NoKw, Returned)
                   EXCEPT !.info = [f \in Funcs |-> CacheInfo(f)]]
    /\ UNCHANGED <<cache, hits, misses, maxsize, since, epoch, pending>>

\* a caller that is in no call
NoBody == [outcome |-> "none", ret |-> <<>>, engine |-> <<>>]
Idle ==
    [pc |-> "idle", op |-> "none", arg |-> NoArg, kw |-> NoKw, key |-> <<>>,
     body |-> NoBody]

\* the module after import: two empty caches built by lru_cache(maxsize=cap),
\* the engine at its first version, no caller in a call
Imported(cap) ==
    /\ cache = [f \in Funcs |-> <<>>]
    /\ hits = [f \in Funcs |-> 0]
    /\ misses = [f \in Funcs |-> 0]
    /\ maxsize = [f \in Funcs |-> cap]
    /\ last = Called("import", NoArg, NoKw, Returned)
    /\ since = [f \in Funcs |-> NoHistory]
    /\ epoch = 0
    /\ pending = [t \in Callers |-> Idle]

\* a call with a str goes through a cache and counts; n bounds the counters
CallsLeft(arg, n) ==
    arg.shape = "str" =>
        hits["tex2typst"] + misses["tex2typst"]
        + hits["typst2tex"] + misses["typst2tex"] < n

(***************************************************************************)
(* Spec: the caches under every option set.  The calls are with a str,     *)
(* with one list, or with an int.                                          *)
(***************************************************************************)
SpecArgs ==
    { StrArg(x) : x \in Texts } \cup { ListArg(<<"alpha", "beta">>), OtherArg("int") }

Init == Imported(MAXSIZE)

Next ==
    \/ \E tex \in SpecArgs, o \in TexOptions :
          CallsLeft(tex, MaxCalls) /\ tex2typst(tex, o)
    \/ \E typst \in SpecArgs, o \in TypstOptions :
          CallsLeft(typst, MaxCalls) /\ typst2tex(typst, o)
    \/ clear_cache
    \/ cache_info

Spec == Init /\ [][Next]_vars

(***************************************************************************)
(* SpecDispatch: the dispatch on the type of the first argument.  The      *)
(* calls are with every argument of Args, under fewer option sets.         *)
(***************************************************************************)
DispatchTexOptions ==
    { DefaultTexOptions,
      [DefaultTexOptions EXCEPT !.custom_tex_macros = Dict(<<>>)],
      [DefaultTexOptions EXCEPT !.custom_tex_macros = Dict(<< <<2, 2>>, <<1, 1>> >>)] }
DispatchTypstOptions == { [block_math_mode |-> "True"] }

NextDispatch ==
    \/ \E tex \in Args, o \in DispatchTexOptions :
          CallsLeft(tex, MaxDispatchCalls) /\ tex2typst(tex, o)
    \/ \E typst \in Args, o \in DispatchTypstOptions :
          CallsLeft(typst, MaxDispatchCalls) /\ typst2tex(typst, o)
    \/ clear_cache
    \/ cache_info

SpecDispatch == Init /\ [][NextDispatch]_vars

(***************************************************************************)
(* SpecLRU: the same module with both caches built at capacity LRUCap, so  *)
(* that a full cache is within reach; the calls are with a str or with one *)
(* list, under few option sets.                                            *)
(***************************************************************************)
LRUArgs == { StrArg(x) : x \in Texts } \cup { ListArg(<<"alpha">>) }
LRUTexOptions == { DefaultTexOptions, [DefaultTexOptions EXCEPT !.frac_to_slash = "False"] }
LRUTypstOptions == { [block_math_mode |-> None] }

InitLRU == Imported(LRUCap)

NextLRU ==
    \/ \E tex \in LRUArgs, o \in LRUTexOptions :
          CallsLeft(tex, MaxLRUCalls) /\ tex2typst(tex, o)
    \/ \E typst \in LRUArgs, o \in LRUTypstOptions :
          CallsLeft(typst, MaxLRUCalls) /\ typst2tex(typst, o)
    \/ clear_cache
    \/ cache_info

SpecLRU == InitLRU /\ [][NextLRU]_vars

(***************************************************************************)
(* SpecStale: SpecLRU with an engine that is replaced by its next version  *)
(* between calls, so that what it returns for a text may differ from what  *)
(* a cache holds for it.                                                   *)
(***************************************************************************)
engine_changes ==
    /\ epoch < MaxEpoch
    /\ epoch' = epoch + 1
    /\ UNCHANGED <<cache, hits, misses, maxsize, last, since, pending>>

NextStale ==
    \/ \E tex \in LRUArgs, o \in LRUTexOptions :
          CallsLeft(tex, MaxStaleCalls) /\ tex2typst(tex, o)
    \/ \E typst \in LRUArgs, o \in LRUTypstOptions :
          CallsLeft(typst, MaxStaleCalls) /\ typst2tex(typst, o)
    \/ clear_cache
    \/ cache_info
    \/ engine_changes

SpecStale == InitLRU /\ [][NextStale]_vars

(***************************************************************************)
(* SpecThreads: calls with a str and clear_cache made by callers that run  *)
(* at once.  A step of a caller is what runs without another caller in     *)
(* between: the wrapper's lookup, the wrapped function, the wrapper's      *)
(* store; clear_cache is one cache_clear() and then the other.            *)
(***************************************************************************)
\* the positional arguments the public function f hands to its cached function
KeyOf(f, x, o) == IF f = "tex2typst" THEN tex2typst_key(x, o) ELSE typst2tex_key(x, o)

\* body of the cached function behind f on the positional arguments k
Wrapped(f, k) == IF f = "tex2typst" THEN tex2typst_cached(k) ELSE typst2tex_cached(k)

\* what a call that went on from the lookup to the wrapped function leaves in
\* last; cache_info() before it is kept only of a call that is one step
Left(p, outcome, ret, engine) ==
    [op |-> p.op, arg |-> p.arg, kw |-> p.kw, before |-> NoInfo,
     outcome |-> outcome, ret |-> ret, engine |-> engine, hit |-> "miss",
     info |-> NoInfo]

\* caller t calls f with the str x: the wrapper looks the key up; a hit
\* returns the entry's value at once, a miss counts and goes on to the
\* wrapped function
wrapper_lookup(t, f, x, o) ==
    LET k == KeyOf(f, x, o)
        c == cache[f]
        i == Find(c, k)
    IN  /\ pending[t].pc = "idle"
        /\ IF i > 0
           THEN /\ cache' = [cache EXCEPT ![f] = lru_touch(c, i)]
                /\ hits' = [hits EXCEPT ![f] = hits[f] + 1]
                /\ last' = Called(f, StrArg(x), o,
                                  [outcome |-> "ok", ret |-> <<c[i].val>>,
                                   engine |-> <<>>, hit |-> "hit"])
                /\ since' = [since EXCEPT ![f] =
                                [calls |-> since[f].calls + 1,
                                 engine |-> since[f].engine,
                                 done |-> Append(Without(since[f].done, k), k)]]
                /\ UNCHANGED <<misses, pending>>
           ELSE /\ misses' = [misses EXCEPT ![f] = misses[f] + 1]
                /\ pending' = [pending EXCEPT ![t] =
                                  [pc |-> "call", op |-> f, arg |-> StrArg(x), kw |-> o,
                                   key |-> k, body |-> NoBody]]
                /\ since' = [since EXCEPT ![f] =
                                [calls |-> since[f].calls + 1,
                                 engine |-> since[f].engine,
                                 done |-> since[f].done]]
                /\ UNCHANGED <<cache, hits, last>>
        /\ UNCHANGED <<maxsize, epoch>>

\* the wrapped function of caller t runs: the engine converts, or raises and
\* the call is over
wrapper_call(t) ==
    LET p == pending[t]
        b == Wrapped(p.op, p.key)
    IN  /\ p.pc = "call"
        /\ since' = [since EXCEPT ![p.op] =
                        [calls |-> since[p.op].calls,
                         engine |-> since[p.op].engine + Cardinality(ScalarCalls(b)),
                         done |-> since[p.op].done]]
        /\ IF b.outcome = "ok"
           THEN /\ pending' = [pending EXCEPT ![t] = [p EXCEPT !.pc = "store", !.body = b]]
                /\ last' = last
           ELSE /\ pending' = [pending EXCEPT ![t] = Idle]
                /\ last' = Left(p, b.outcome, <<>>, b.engine)
        /\ UNCHANGED <<cache, hits, misses, maxsize, epoch>>

\* the wrapped function of caller t has returned: the wrapper keeps the result
\* and returns it
wrapper_store(t) ==
    LET p == pending[t]
    IN  /\ p.pc = "store"
        /\ cache' = [cache EXCEPT ![p.op] =
                        lru_insert(cache[p.op], p.key, p.body.ret[1], maxsize[p.op])]
        /\ since' = [since EXCEPT ![p.op] =
                        [calls |-> since[p.op].calls,
                         engine |-> since[p.op].engine,
                         done |-> Append(Without(since[p.op].done, p.key), p.key)]]
        /\ pending' = [pending EXCEPT ![t] = Idle]
        /\ last' = Left(p, "ok", p.body.ret, p.body.engine)
        /\ UNCHANGED <<hits, misses, maxsize, epoch>>

\* caller t calls clear_cache: _tex2typst_cached.cache_clear()
clear_first(t) ==
    /\ pending[t].pc = "idle"
    /\ cache' = [cache EXCEPT !["tex2typst"] = cache_clear("tex2typst").cache]
    /\ hits' = [hits EXCEPT !["tex2typst"] = cache_clear("tex2typst").hits]
    /\ misses' = [misses EXCEPT !["tex2typst"] = cache_clear("tex2typst").misses]
    /\ since' = [since EXCEPT !["tex2typst"] = NoHistory]
    /\ pending' = [pending EXCEPT ![t] =
                      [Idle EXCEPT !.pc = "clear", !.op = "clear_cache"]]
    /\ UNCHANGED <<maxsize, last, epoch>>

\* ... and then _typst2tex_cached.cache_clear()
clear_second(t) ==
    /\ pending[t].pc = "clear"
    /\ cache' = [cache EXCEPT !["typst2tex"] = cache_clear("typst2tex").cache]
    /\ hits' = [hits EXCEPT !["typst2tex"] = cache_clear("typst2tex").hits]
    /\ misses' = [misses EXCEPT !["typst2tex"] = cache_clear("typst2tex").misses]
    /\ since' = [since EXCEPT !["typst2tex"] = NoHistory]
    /\ pending' = [pending EXCEPT ![t] = Idle]
    /\ last' = [Called("clear_cache", NoArg, NoKw, Returned) EXCEPT !.before = NoInfo]
    /\ UNCHANGED <<maxsize, epoch>>

\* the texts the callers hand to tex2typst and to typst2tex
ThreadTexts == {"alpha", "beta", "gamma"}
ThreadTypsts == {"alpha", "bad"}
ThreadTexOptions == { DefaultTexOptions }
ThreadTypstOptions == { [block_math_mode |-> None] }

InitThreads == Imported(ThreadCap)

NextThreads ==
    \/ \E t \in Callers, x \in ThreadTexts, o \in ThreadTexOptions :
          CallsLeft(StrArg(x), MaxThreadCalls) /\ wrapper_lookup(t, "tex2typst", x, o)
    \/ \E t \in Callers, x \in ThreadTypsts, o \in ThreadTypstOptions :
          CallsLeft(StrArg(x), MaxThreadCalls) /\ wrapper_lookup(t, "typst2tex", x, o)
    \/ \E t \in Callers : wrapper_call(t)
    \/ \E t \in Callers : wrapper_store(t)
    \/ \E t \in Callers : clear_first(t)
    \/ \E t \in Callers : clear_second(t)

SpecThreads == InitThreads /\ [][NextThreads]_vars

(***************************************************************************)
(* What the claims speak of.                                               *)
(***************************************************************************)
\* the step is a call of public function f with a str
StrCall(f) == last'.op = f /\ last'.arg.shape = "str"

\* the step is a call of public function f with a list
ListCall(f) == last'.op = f /\ last'.arg.shape = "list"

\* the step repeats the call before it: same function, same argument, same
\* keyword arguments
SameCall == last'.op = last.op /\ last'.arg = last.arg /\ last'.kw = last.kw

\* the caches, entries and counters, are what they were
CachesUnchanged == cache' = cache /\ hits' = hits /\ misses' = misses

(***************************************************************************)
(* C1: when a call with a str has returned, the same call made next        *)
(* returns the same output; if the first was a miss, the second adds one   *)
(* to the function's hits, leaves its misses and its size alone, and does  *)
(* not invoke the engine.  For tex2typst and for typst2tex.                *)
(***************************************************************************)
C1_RepeatIsHit ==
    [][\A f \in Funcs :
         (last.op = f /\ last.arg.shape = "str" /\ last.outcome = "ok"
            /\ StrCall(f) /\ SameCall)
         => /\ last'.outcome = "ok"
            /\ last'.ret = last.ret
            /\ last.hit = "miss" =>
                 /\ hits'[f] = hits[f] + 1
                 /\ misses'[f] = misses[f]
                 /\ Len(cache'[f]) = Len(cache[f])
                 /\ last'.engine = <<>>]_vars

\* tex2typst has answered a second call from the entry its first call stored
C1_Witness ==
    /\ last.op = "tex2typst" /\ last.arg.shape = "str" /\ last.hit = "hit"
    /\ last.before["tex2typst"].hits = 0 /\ last.before["tex2typst"].misses = 1
    /\ hits["tex2typst"] = 1 /\ misses["tex2typst"] = 1
    /\ Len(cache["tex2typst"]) = 1
    /\ last.ret = <<cache["tex2typst"][1].val>> /\ last.engine = <<>>

(***************************************************************************)
(* C2: a call with a list neither reads nor writes the caches: entries,    *)
(* their order, hits and misses of both functions are what they were, the  *)
(* cache answers nothing, and the whole list, items that are cached        *)
(* included, goes to the batch entry point in one call; so too when the    *)
(* engine rejects the list.                                                *)
(***************************************************************************)
C2_ListBypassesCache ==
    [][\A f \in Funcs :
         ListCall(f)
         => /\ CachesUnchanged
            /\ last'.hit = "none"
            /\ ScalarCalls(last') = {}
            /\ Len(last'.engine) = 1
            /\ last'.engine[1].entry = "batch"
            /\ last'.engine[1].fn = f
            /\ last'.engine[1].texts = last'.arg.items]_vars

\* a list of two items, the first of them cached by an earlier call with a
\* str, has been converted
C2_Witness ==
    /\ last.op = "tex2typst" /\ last.arg.shape = "list" /\ last.outcome = "ok"
    /\ Len(last.arg.items) = 2
    /\ Len(cache["tex2typst"]) = 1
    /\ cache["tex2typst"][1].key[1] = last.arg.items[1]
    /\ hits["tex2typst"] = 0 /\ misses["tex2typst"] = 1
    /\ BatchCalls(last) = {1}

(***************************************************************************)
(* C3: a call whose first argument is neither a str nor a list raises      *)
(* TypeError, invokes no engine entry point and leaves the caches as they  *)
(* were.                                                                   *)
(***************************************************************************)
C3_TypeErrorFirst ==
    [][\A f \in Funcs :
         (last'.op = f /\ last'.arg.shape \notin {"str", "list"})
         => /\ last'.outcome = "TypeError"
            /\ last'.ret = <<>>
            /\ last'.engine = <<>>
            /\ CachesUnchanged]_vars

\* typst2tex has refused a dict while its cache held an entry
C3_Witness ==
    /\ last.op = "typst2tex" /\ last.arg.shape = "dict"
    /\ last.outcome = "TypeError" /\ last.engine = <<>>
    /\ Len(cache["typst2tex"]) = 1 /\ misses["typst2tex"] = 1

(***************************************************************************)
(* C4: clear_cache leaves both caches with no entries, hits = 0 and        *)
(* misses = 0, at the capacity they had; the call with a str that follows  *)
(* it is a miss that invokes the engine.                                   *)
(***************************************************************************)
C4_ClearCache ==
    [][/\ last'.op = "clear_cache"
          => \A f \in Funcs :
                /\ cache'[f] = <<>> /\ hits'[f] = 0 /\ misses'[f] = 0
                /\ maxsize'[f] = maxsize[f]
       /\ \A f \in Funcs :
            (last.op = "clear_cache" /\ StrCall(f))
            => /\ last'.hit = "miss"
               /\ Cardinality(ScalarCalls(last')) = 1]_vars

\* clear_cache has emptied two caches that held entries and had counted
C4_Witness ==
    /\ last.op = "clear_cache"
    /\ \A f \in Funcs : last.before[f].currsize > 0 /\ last.before[f].misses > 0
    /\ \A f \in Funcs : cache[f] = <<>> /\ hits[f] = 0 /\ misses[f] = 0
    /\ \A f \in Funcs : maxsize[f] = last.before[f].maxsize

SameFlags(o1, o2) ==
    /\ o1.non_strict = o2.non_strict
    /\ o1.prefer_shorthands = o2.prefer_shorthands
    /\ o1.keep_spaces = o2.keep_spaces
    /\ o1.frac_to_slash = o2.frac_to_slash
    /\ o1.infty_to_oo = o2.infty_to_oo
    /\ o1.optimize = o2.optimize

\* both give a dict, and the dicts hold the same pairs
SamePairs(o1, o2) ==
    /\ o1.custom_tex_macros.given /\ o2.custom_tex_macros.given
    /\ AsMapping(o1.custom_tex_macros) = AsMapping(o2.custom_tex_macros)

(***************************************************************************)
(* C5: keyword arguments that differ only in the insertion order of        *)
(* custom_tex_macros give the same key: after a call with a str has        *)
(* returned, the call with the same str and the other order is a hit that  *)
(* returns the same output and does not invoke the engine.                 *)
(***************************************************************************)
C5_MacroOrderIgnored ==
    [][(/\ last.op = "tex2typst" /\ last.arg.shape = "str" /\ last.outcome = "ok"
        /\ StrCall("tex2typst") /\ last'.arg = last.arg
        /\ SameFlags(last.kw, last'.kw) /\ SamePairs(last.kw, last'.kw))
       => /\ tex2typst_key(last.arg.items[1], last.kw)
               = tex2typst_key(last'.arg.items[1], last'.kw)
          /\ last'.hit = "hit"
          /\ last'.engine = <<>>
          /\ last'.ret = last.ret]_vars

\* a call whose dict was built in the order 2, 1 has been answered from the
\* entry kept under the pairs in the order 1, 2
C5_Witness ==
    /\ last.op = "tex2typst" /\ last.arg.shape = "str" /\ last.hit = "hit"
    /\ last.kw.custom_tex_macros = Dict(<< <<2, 2>>, <<1, 1>> >>)
    /\ Len(cache["tex2typst"]) = 1
    /\ cache["tex2typst"][1].key[8] = Dict(<< <<1, 1>>, <<2, 2>> >>)
    /\ last.engine = <<>>

(***************************************************************************)
(* C6: in every state the number of entries of each cache is at most its   *)
(* capacity, and the capacity is the one the cache was built with: LRUCap  *)
(* in SpecLRU, where a full cache is within reach, for the 1024 of the     *)
(* code.                                                                   *)
(***************************************************************************)
C6_SizeWithinCapacity ==
    \A f \in Funcs : Len(cache[f]) <= maxsize[f] /\ maxsize[f] = LRUCap

\* a miss on a full cache has stored its result, and the cache is still full
C6_Witness ==
    /\ last.op = "tex2typst" /\ last.hit = "miss" /\ last.outcome = "ok"
    /\ last.before["tex2typst"].currsize = LRUCap
    /\ Len(cache["tex2typst"]) = LRUCap

\* what the call of f with the str x returns in this state
StrResult(f, x, o) ==
    IF f = "tex2typst" THEN tex2typst_str(x, o) ELSE typst2tex_str(x, o)

(***************************************************************************)
(* C7: a call with a non-empty list that returns gives a list of the same  *)
(* length whose i-th element is what the call with the i-th item as a str  *)
(* and the same keyword arguments returns.                                 *)
(***************************************************************************)
C7_ListMatchesStr ==
    \A f \in Funcs :
        (last.op = f /\ last.arg.shape = "list" /\ last.arg.items # <<>>
            /\ last.outcome = "ok")
        => /\ Len(last.ret) = Len(last.arg.items)
           /\ \A i \in 1..Len(last.arg.items) :
                 /\ StrResult(f, last.arg.items[i], last.kw).outcome = "ok"
                 /\ StrResult(f, last.arg.items[i], last.kw).ret = <<last.ret[i]>>

\* the step is a call of public function f with an empty list
EmptyListCall(f) == ListCall(f) /\ last'.arg.items = <<>>

(***************************************************************************)
(* C8, as claimed: a call with an empty list returns an empty list, leaves *)
(* the caches and cache_info() as they were, and invokes no engine entry   *)
(* point.                                                                  *)
(***************************************************************************)
C8_EmptyListNoEngine ==
    [][\A f \in Funcs :
         EmptyListCall(f)
         => /\ last'.outcome = "ok" /\ last'.ret = <<>>
            /\ CachesUnchanged /\ maxsize' = maxsize
            /\ last'.engine = <<>>]_vars

(***************************************************************************)
(* C8, as amended: a call with an empty list returns an empty list and     *)
(* leaves the caches and cache_info() as they were; the scalar entry point *)
(* is not invoked, and the empty list goes to the batch entry point in one *)
(* call.                                                                   *)
(***************************************************************************)
C8_EmptyListToBatch ==
    [][\A f \in Funcs :
         EmptyListCall(f)
         => /\ last'.outcome = "ok" /\ last'.ret = <<>>
            /\ CachesUnchanged /\ maxsize' = maxsize
            /\ ScalarCalls(last') = {}
            /\ Len(last'.engine) = 1
            /\ last'.engine[1].entry = "batch"
            /\ last'.engine[1].fn = f
            /\ last'.engine[1].texts = <<>>]_vars

\* tex2typst has returned [] for [] while its cache held an entry
C8_Witness ==
    /\ last.op = "tex2typst" /\ last.arg = ListArg(<<>>)
    /\ last.outcome = "ok" /\ last.ret = <<>>
    /\ BatchCalls(last) = {1}
    /\ Len(cache["tex2typst"]) = 1

(***************************************************************************)
(* C9: when the engine rejects a call with a str, the caller gets the      *)
(* engine's error, the entries and their order are what they were, hits is *)
(* what it was and the function's misses is one more; the same call made   *)
(* next is a miss again and invokes the engine again.                      *)
(***************************************************************************)
C9_FailureNotCached ==
    [][\A f \in Funcs :
         /\ (StrCall(f) /\ last'.outcome # "ok")
            => /\ last'.outcome = "ConversionError"
               /\ cache' = cache
               /\ hits' = hits
               /\ misses' = [misses EXCEPT ![f] = misses[f] + 1]
               /\ last'.hit = "miss"
               /\ Cardinality(ScalarCalls(last')) = 1
         /\ (last.op = f /\ last.arg.shape = "str" /\ last.outcome = "ConversionError"
               /\ StrCall(f) /\ SameCall)
            => /\ last'.hit = "miss"
               /\ last'.outcome = "ConversionError"
               /\ Cardinality(ScalarCalls(last')) = 1]_vars

\* the engine has rejected a call of tex2typst whose cache held an entry, and
\* the entry is still there
C9_Witness ==
    /\ last.op = "tex2typst" /\ last.arg.shape = "str"
    /\ last.outcome = "ConversionError"
    /\ last.before["tex2typst"].currsize = 1 /\ last.before["tex2typst"].misses = 1
    /\ Len(cache["tex2typst"]) = 1
    /\ hits["tex2typst"] = 0 /\ misses["tex2typst"] = 2

SameTexOptions(o1, o2) ==
    /\ SameFlags(o1, o2)
    /\ o1.custom_tex_macros.given = o2.custom_tex_macros.given
    /\ AsMapping(o1.custom_tex_macros) = AsMapping(o2.custom_tex_macros)

\* the call (x, o) of f is the call that stored the entry of key k
StoredBy(f, k, x, o) ==
    IF f = "tex2typst"
    THEN /\ k[1] = x
         /\ SameTexOptions(o, [non_strict |-> k[2], prefer_shorthands |-> k[3],
                               keep_spaces |-> k[4], frac_to_slash |-> k[5],
                               infty_to_oo |-> k[6], optimize |-> k[7],
                               custom_tex_macros |-> k[8]])
    ELSE k[1] = x /\ k[2] = o.block_math_mode

KeysTellOptionsApart ==
    /\ \A x \in Texts, o1 \in TexOptions, o2 \in TexOptions :
          (tex2typst_key(x, o1) = tex2typst_key(x, o2)) <=> SameTexOptions(o1, o2)
    /\ \A x \in Texts, o1 \in TypstOptions, o2 \in TypstOptions :
          (typst2tex_key(x, o1) = typst2tex_key(x, o2)) <=> (o1 = o2)

(***************************************************************************)
(* C10: two sets of keyword arguments give the same key exactly when they  *)
(* are the same set: the same value for every flag, and custom_tex_macros  *)
(* both None or both a dict of the same pairs.  So a call with a str is a  *)
(* hit exactly when a call with that str and the same set is resident, the *)
(* hit returns that entry's output, and a miss that returns adds an entry  *)
(* and leaves the others in place.                                         *)
(***************************************************************************)
C10_KeyPerOptionSet ==
    [][/\ KeysTellOptionsApart
       /\ \A f \in Funcs :
            StrCall(f)
            => LET c == cache[f]
                   x == last'.arg.items[1]
                   same == { i \in 1..Len(c) : StoredBy(f, c[i].key, x, last'.kw) }
               IN  /\ Cardinality(same) <= 1
                   /\ same # {} =>
                        /\ last'.hit = "hit"
                        /\ \A i \in same : last'.ret = <<c[i].val>>
                   /\ same = {} =>
                        /\ last'.hit = "miss"
                        /\ last'.outcome = "ok" =>
                             /\ Len(cache'[f]) = Len(c) + 1
                             /\ \A i \in 1..Len(c) : cache'[f][i] = c[i]
                             /\ cache'[f][Len(c) + 1].val = last'.ret[1]
                             /\ StoredBy(f, cache'[f][Len(c) + 1].key, x, last'.kw)]_vars

\* the same str is resident twice, once for custom_tex_macros=None and once
\* for custom_tex_macros={}
C10_Witness ==
    /\ Len(cache["tex2typst"]) = 2
    /\ cache["tex2typst"][1].key[1] = cache["tex2typst"][2].key[1]
    /\ { cache["tex2typst"][1].key[8], cache["tex2typst"][2].key[8] }
           = { NoDict, Dict(<<>>) }
    /\ last.hit = "miss" /\ misses["tex2typst"] = 2

\* the keys of the entries of c, least recently used first
Keys(c) == [i \in 1..Len(c) |-> c[i].key]

\* the last n of s
LastN(s, n) == IF Len(s) <= n THEN s ELSE SubSeq(s, Len(s) - n + 1, Len(s))

\* the place of key k in the order of last access of s: the greater, the more
\* recent the last access (the store or a later hit)
AccessedAt(s, k) == CHOOSE i \in 1..Len(s) : s[i] = k

\* the entries of c whose key has no entry in d
Gone(c, d) == { i \in 1..Len(c) : \A j \in 1..Len(d) : d[j].key # c[i].key }

(***************************************************************************)
(* C11: in each cache, a miss that returns while the cache is full drops   *)
(* exactly one entry, the one whose last access (its store or a later hit) *)
(* is older than that of every other entry, and keeps the new entry as the *)
(* most recently used; a hit moves its entry to the most recently used end *)
(* and drops none.  So after every step the entries are, in order, the     *)
(* maxsize most recently accessed keys converted since the last            *)
(* clear_cache.                                                            *)
(***************************************************************************)
C11_LeastRecentEvicted ==
    [][\A f \in Funcs :
         /\ Keys(cache'[f]) = LastN(since'[f].done, maxsize'[f])
         /\ (StrCall(f) /\ last'.hit = "miss" /\ last'.outcome = "ok"
                /\ Len(cache[f]) = maxsize[f])
            => LET c == cache[f]
                   gone == Gone(c, cache'[f])
               IN  /\ Cardinality(gone) = 1
                   /\ \A i \in gone, j \in (1..Len(c)) \ gone :
                         AccessedAt(since[f].done, c[i].key)
                             < AccessedAt(since[f].done, c[j].key)
                   /\ Len(cache'[f]) = maxsize[f]
                   /\ cache'[f][Len(cache'[f])].key
                         = KeyOf(f, last'.arg.items[1], last'.kw)
         /\ (StrCall(f) /\ last'.hit = "hit")
            => /\ Gone(cache[f], cache'[f]) = {}
               /\ Len(cache'[f]) = Len(cache[f])
               /\ cache'[f][Len(cache'[f])].key
                     = KeyOf(f, last'.arg.items[1], last'.kw)]_vars

\* a miss on a full cache of tex2typst has dropped the entry stored second
\* and kept the one stored first, which a hit had used since
C11_Witness ==
    /\ last.op = "tex2typst" /\ last.hit = "miss" /\ last.outcome = "ok"
    /\ last.before["tex2typst"].currsize = LRUCap
    /\ last.before["tex2typst"].hits = 1
    /\ Len(since["tex2typst"].done) = LRUCap + 1
    /\ Len(cache["tex2typst"]) = LRUCap
    /\ cache["tex2typst"][LRUCap - 1].key = since["tex2typst"].done[LRUCap]
    /\ Find(cache["tex2typst"], since["tex2typst"].done[1]) = 0
    /\ misses["tex2typst"] = LRUCap + 1

Min(a, b) == IF a <= b THEN a ELSE b

\* the keys converted since the last clear_cache, each counted once
Distinct(s) == { s[i] : i \in 1..Len(s) }

(***************************************************************************)
(* C12: with the public functions called one at a time, after every step   *)
(* and for each cached function: hits + misses is the number of calls with *)
(* a str since the last clear_cache, those the engine rejected included;   *)
(* misses is the number of invocations of the scalar entry point since     *)
(* then; the size is the smaller of maxsize and the number of distinct     *)
(* keys converted since then; and no step but clear_cache lowers hits or   *)
(* misses.                                                                 *)
(***************************************************************************)
C12_CountersCount ==
    [][\A f \in Funcs :
         /\ hits'[f] + misses'[f] = since'[f].calls
         /\ misses'[f] = since'[f].engine
         /\ Len(cache'[f]) = Min(maxsize'[f], Cardinality(Distinct(since'[f].done)))
         /\ last'.op # "clear_cache" => hits'[f] >= hits[f] /\ misses'[f] >= misses[f]]_vars

\* tex2typst has been called with more distinct texts than its cache holds,
\* and the engine has rejected the last call
C12_Witness ==
    /\ last.op = "tex2typst" /\ last.arg.shape = "str"
    /\ last.outcome = "ConversionError"
    /\ Cardinality(Distinct(since["tex2typst"].done)) = LRUCap + 1
    /\ Len(cache["tex2typst"]) = LRUCap
    /\ since["tex2typst"].calls = LRUCap + 2
    /\ since["tex2typst"].engine = LRUCap + 2
    /\ hits["tex2typst"] = 0 /\ misses["tex2typst"] = LRUCap + 2

(***************************************************************************)
(* C13: for each key, a hit returns the value of the key's entry, and the  *)
(* value is what the engine returned to the miss that stored the entry:    *)
(* an entry appears only by a miss that returns, holding what the engine   *)
(* returned to that call; an entry that stays keeps its value at every     *)
(* step, a change of the engine included; and an entry goes only by        *)
(* clear_cache or by a miss that returns on a full cache.                  *)
(***************************************************************************)
C13_HitReturnsStored ==
    [][\A f \in Funcs :
         LET c == cache[f]
             d == cache'[f]
         IN  /\ (StrCall(f) /\ last'.hit = "hit")
                => \E i \in 1..Len(c) :
                      /\ c[i].key = KeyOf(f, last'.arg.items[1], last'.kw)
                      /\ last'.ret = <<c[i].val>>
             /\ \A i \in 1..Len(c), j \in 1..Len(d) :
                   d[j].key = c[i].key => d[j].val = c[i].val
             /\ \A j \in Gone(d, c) :
                   /\ StrCall(f) /\ last'.hit = "miss" /\ last'.outcome = "ok"
                   /\ d[j].key = KeyOf(f, last'.arg.items[1], last'.kw)
                   /\ d[j].val = last'.ret[1]
                   /\ ScalarCalls(last') = {1}
                   /\ last'.ret[1] = core_output(f, last'.arg.items[1], last'.engine[1].kw)
             /\ Gone(c, d) # {}
                => \/ last'.op = "clear_cache"
                   \/ /\ StrCall(f) /\ last'.hit = "miss" /\ last'.outcome = "ok"
                      /\ Len(c) = maxsize[f]]_vars

\* a hit of tex2typst has returned what the engine's first version returned,
\* while the engine, at a later version, would return something else
C13_Witness ==
    /\ last.op = "tex2typst" /\ last.arg.shape = "str" /\ last.hit = "hit"
    /\ last.engine = <<>>
    /\ last.ret[1].epoch = 0 /\ epoch > 0
    /\ tex2typst_cached(tex2typst_key(last.arg.items[1], last.kw)).outcome = "ok"
    /\ tex2typst_cached(tex2typst_key(last.arg.items[1], last.kw)).ret # last.ret
    /\ \E i \in 1..Len(cache["tex2typst"]) : <<cache["tex2typst"][i].val>> = last.ret

(***************************************************************************)
(* C14: with callers that run at once, in every state each key has at most *)
(* one entry in a cache, the size of each cache is at most its maxsize,    *)
(* and a call with a str that returned has returned the engine's output    *)
(* for its key, also when another caller's call of the same key was under  *)
(* way and the engine was invoked for both.                                *)
(***************************************************************************)
C14_RaceKeepsCache ==
    /\ \A f \in Funcs :
          /\ \A i, j \in 1..Len(cache[f]) :
                cache[f][i].key = cache[f][j].key => i = j
          /\ Len(cache[f]) <= maxsize[f]
    /\ \A f \in Funcs :
          (last.op = f /\ last.arg.shape = "str" /\ last.outcome = "ok")
          => last.ret = Wrapped(f, KeyOf(f, last.arg.items[1], last.kw)).ret
    /\ \A t \in Callers :
          pending[t].pc = "store"
          => pending[t].body.ret = Wrapped(pending[t].op, pending[t].key).ret

\* two calls of tex2typst with the same str missed, the engine was invoked
\* for each; the first has stored and returned, the second is about to store
C14_Witness ==
    /\ last.op = "tex2typst" /\ last.hit = "miss" /\ last.outcome = "ok"
    /\ Len(cache["tex2typst"]) = 1
    /\ <<cache["tex2typst"][1].val>> = last.ret
    /\ \E t \in Callers :
          /\ pending[t].pc = "store" /\ pending[t].op = "tex2typst"
          /\ pending[t].key = cache["tex2typst"][1].key
          /\ pending[t].arg = last.arg
    /\ misses["tex2typst"] = 2 /\ hits["tex2typst"] = 0
    /\ since["tex2typst"].engine = 2

(***************************************************************************)
(* C15: in every state, those reached with a clear_cache of one caller     *)
(* between the lookup and the store of another caller's call included,     *)
(* the size of each cache is at most its misses.                           *)
(***************************************************************************)
C15_SizeWithinMisses ==
    \A f \in Funcs : Len(cache[f]) <= misses[f]

\* the other cached function
Other(f) == CHOOSE g \in Funcs : g # f

\* the cache of f, entries in order and counters, is what it was
CacheUnchanged(f) ==
    cache'[f] = cache[f] /\ hits'[f] = hits[f] /\ misses'[f] = misses[f]

(***************************************************************************)
(* C16: the two caches are independent: a call of tex2typst, with a str,   *)
(* a list or another type, returning or raising, leaves the entries, their *)
(* order, hits, misses and size of the cache of typst2tex as they were,    *)
(* and a call of typst2tex leaves those of tex2typst as they were; a step  *)
(* that changes both caches is a clear_cache.                              *)
(***************************************************************************)
C16_CachesIndependent ==
    [][/\ \A f \in Funcs : last'.op = f => CacheUnchanged(Other(f))
       /\ (\A f \in Funcs : ~CacheUnchanged(f)) => last'.op = "clear_cache"]_vars

\* a call of typst2tex has missed and stored while the cache of tex2typst
\* held an entry and had counted a hit, and these are as they were
C16_Witness ==
    /\ last.op = "typst2tex" /\ last.hit = "miss" /\ last.outcome = "ok"
    /\ Len(cache["typst2tex"]) = 1 /\ misses["typst2tex"] = 1
    /\ last.before["tex2typst"] = CacheInfo("tex2typst")
    /\ Len(cache["tex2typst"]) = 1
    /\ hits["tex2typst"] = 1 /\ misses["tex2typst"] = 1

\* the keyword arguments o of f as the engine receives them when they are
\* handed on as they are
HandedOn(f, o) ==
    IF f = "tex2typst"
    THEN [o EXCEPT !.custom_tex_macros = AsMapping(o.custom_tex_macros)]
    ELSE o

\* what the call of f with the list xs does in this state
ListResult(f, xs, o) ==
    IF f = "tex2typst" THEN tex2typst_list(xs, o) ELSE typst2tex_list(xs, o)

(***************************************************************************)
(* C17: a call with a str that misses invokes the scalar entry point once, *)
(* with the caller's str and the caller's keyword arguments: every flag as *)
(* given (None, True or False) and custom_tex_macros as given, None as     *)
(* None, {} as {}, a dict with pairs as a dict of the same pairs; that is, *)
(* with what the list branch hands to the batch entry point.               *)
(***************************************************************************)
C17_EngineGetsCallersOptions ==
    \A f \in Funcs :
        (last.op = f /\ last.arg.shape = "str" /\ last.hit = "miss")
        => /\ Len(last.engine) = 1
           /\ last.engine[1].entry = "scalar"
           /\ last.engine[1].fn = f
           /\ last.engine[1].texts = last.arg.items
           /\ last.engine[1].kw = HandedOn(f, last.kw)
           /\ last.engine[1].kw = ListResult(f, last.arg.items, last.kw).engine[1].kw

(***************************************************************************)
(* C18: a call with a list that holds an item that is not a str is         *)
(* rejected by the public function itself, before the engine: the call     *)
(* raises, no engine entry point, the batch entry point included, is       *)
(* invoked for it, and no cache answers it.                                *)
(***************************************************************************)
C18_MixedListRejected ==
    \A f \in Funcs :
        (last.op = f /\ last.arg.shape = "list"
            /\ \E i \in 1..Len(last.arg.items) : last.arg.items[i] \in NonStr)
        => /\ last.outcome # "ok"
           /\ last.engine = <<>>
           /\ BatchCalls(last) = {}
           /\ last.hit = "none"

====
